---- MODULE Spec2Model ----
(***************************************************************************)
(* A model of wenku.py: the WenKuClient pipeline (parse_doc_id,            *)
(* get_doc_info, parse_image_urls, batch_fetch, get_text,                  *)
(* parse_doc_content, fetch) and the ProgressInfo context decorator.       *)
(*                                                                         *)
(* Python str values are sequences of one-character strings, bytes values  *)
(* are sequences of byte codes, Optional values are None / Some(v), and    *)
(* the outcome of a call is Return(v) or Raise(e).                         *)
(***************************************************************************)
EXTENDS Integers, Sequences, FiniteSets, TLC

VARIABLES
    pc,           \* position of the main thread
    url,          \* fetch(url): the argument
    doc_id,       \* fetch: doc_id = cls.parse_doc_id(url)
    doc_info,     \* fetch: doc_info = cls.get_doc_info(doc_id)
    image_urls,   \* get_images: image_urls = cls.parse_image_urls(doc_info)
    text,         \* fetch: text = cls.get_text(doc_id); parse_doc_content: text
    content,      \* load_jsonp: the argument
    raw,          \* parse_doc_content: the argument
    data,         \* what the call of load_jsonp or parse_doc_content made
    html,         \* get_text: the shape of the viewer page that was served
    frags,        \* get_text: frags
    exc,          \* the exception that left fetch, or "none"
    dirs,         \* directories on disk
    files,        \* files on disk: name -> what was written
    warned,       \* warnings.warn messages, in order
    printed,      \* lines printed on stdout, in order
    requests,     \* HTTP requests issued so far, in order
    urls,         \* batch_fetch: the argument
    owner,        \* batch_fetch: who iterates the generator
    bpc,          \* batch_fetch: position of the generator
    tasks,        \* batch_fetch: the state of each submitted future
    num_threads,  \* ThreadPoolExecutor: worker threads started
    pos,          \* batch_fetch: index of the task whose result is awaited
    out,          \* batch_fetch: the values yielded so far, in order
    concurrency   \* WenKuClient.concurrency

pipeVars == <<url, doc_id, doc_info, image_urls, html, frags, exc, dirs, files,
              warned, printed, requests>>
pureVars == <<content, raw, data>>
batchVars == <<urls, owner, bpc, tasks, num_threads, pos, out, concurrency>>
vars == <<pc, text, pipeVars, pureVars, batchVars>>

----------------------------------------------------------------------------
(* Bounds of the model.                                                    *)

MaxLen == 5          \* longest payload handed to load_jsonp
MaxItems == 3        \* most records in one text fragment
MaxSegments == 3     \* most segments of a url handed to parse_doc_id
MaxParams == 2       \* most bcsParam entries of a doc_info
MaxFragments == 2    \* most text fragments of a document
MaxUrls == 4         \* most urls handed to batch_fetch by a direct caller
MaxConcurrency == 2  \* largest WenKuClient.concurrency a direct caller sets

----------------------------------------------------------------------------
(* Python values.                                                          *)

None == [some |-> FALSE]
Some(v) == [some |-> TRUE, v |-> v]
Return(v) == [exc |-> "none", value |-> v]
Raise(e) == [exc |-> e]

SeqsUpTo(S, n) == UNION {[1..k -> S] : k \in 0..n}

----------------------------------------------------------------------------
(* load_jsonp                                                              *)

\* str.find(ch): 0-based index of the first occurrence, -1 when there is none
Find(s, ch) ==
    IF \E i \in 1..Len(s) : s[i] = ch
    THEN (CHOOSE i \in 1..Len(s) : s[i] = ch /\ \A j \in 1..(i - 1) : s[j] # ch) - 1
    ELSE -1

\* str.rindex(ch): 0-based index of the last occurrence; raises ValueError
RIndex(s, ch) ==
    IF \E i \in 1..Len(s) : s[i] = ch
    THEN Return((CHOOSE i \in 1..Len(s) : s[i] = ch /\ \A j \in (i + 1)..Len(s) : s[j] # ch) - 1)
    ELSE Raise("ValueError")

\* s[lo:hi] for 0 <= lo and 0 <= hi
Slice(s, lo, hi) ==
    SubSeq(s, lo + 1, IF hi < Len(s) THEN hi ELSE Len(s))

\* bytes.decode("u8") on ASCII bytes
Chr(b) ==
    CASE b = 32 -> " "
      [] b = 40 -> "("
      [] b = 41 -> ")"
      [] b = 49 -> "1"
      [] b = 120 -> "x"

Decode(bs) == [i \in 1..Len(bs) |-> Chr(bs[i])]

RECURSIVE LStrip(_)
LStrip(s) ==
    IF s # <<>> /\ Head(s) = " " THEN LStrip(Tail(s)) ELSE s

RECURSIVE RStrip(_)
RStrip(s) ==
    IF s # <<>> /\ s[Len(s)] = " " THEN RStrip(SubSeq(s, 1, Len(s) - 1)) ELSE s

RECURSIVE DecimalValue(_)
DecimalValue(s) ==
    IF s = <<>> THEN 0 ELSE 10 * DecimalValue(SubSeq(s, 1, Len(s) - 1)) + 1

\* json.loads on the documents the payload alphabet can spell: a number made of
\* the digit 1, with optional surrounding whitespace; anything else is a
\* json.JSONDecodeError (a ValueError)
JsonLoads(s) ==
    LET body == RStrip(LStrip(s))
    IN IF body # <<>> /\ \A i \in 1..Len(body) : body[i] = "1"
       THEN Return(DecimalValue(body))
       ELSE Raise("JSONDecodeError")

load_jsonp(c) ==
    LET s == IF c.type = "bytes" THEN Decode(c.data) ELSE c.data
        lindex == Find(s, "(")
        rindex == RIndex(s, ")")
    IN IF rindex.exc # "none"
       THEN rindex
       ELSE JsonLoads(Slice(s, lindex + 1, rindex.value))

----------------------------------------------------------------------------
(* parse_doc_content                                                       *)

Abs(n) == IF n < 0 THEN -n ELSE n

\* one pass of the loop body over item, from the state st = [text, last_y]
ContentStep(st, item) ==
    IF item.t # "word"
    THEN st
    ELSE LET appended == Append(st.text, item.c)
             broken == IF st.last_y.some /\ Abs(item.y - st.last_y.v) > 1
                       THEN Append(appended, "\n")
                       ELSE appended
         IN [text |-> broken, last_y |-> Some(item.y)]

RECURSIVE ContentLoop(_, _)
ContentLoop(st, items) ==
    IF items = <<>> THEN st ELSE ContentLoop(ContentStep(st, Head(items)), Tail(items))

\* raw stands for the fragment's bytes by what load_jsonp makes of them:
\* Raise(e), or Return of the mapping with its "body" list
parse_doc_content(r) ==
    IF r.exc # "none"
    THEN r
    ELSE Return(ContentLoop([text |-> <<>>, last_y |-> None], r.value.body).text)

----------------------------------------------------------------------------
(* parse_doc_id                                                            *)

MinIdLen == 8      \* the {8,} of the pattern

HexDigits == {"0", "1", "2", "3", "4", "5", "6", "7", "8", "9",
              "a", "b", "c", "d", "e", "f"}

\* how many characters of the class [0-9a-f] stand at s[i], s[i+1], ...
RECURSIVE HexRun(_, _)
HexRun(s, i) ==
    IF i <= Len(s) /\ s[i] \in HexDigits THEN 1 + HexRun(s, i + 1) ELSE 0

\* pat.findall(url) for pat = ([0-9a-f]{8,}): the non-overlapping matches,
\* scanning from position i, each match greedy
RECURSIVE FindAllIds(_, _)
FindAllIds(s, i) ==
    IF i > Len(s)
    THEN <<>>
    ELSE LET n == HexRun(s, i)
         IN IF n >= MinIdLen
            THEN <<SubSeq(s, i, i + n - 1)>> \o FindAllIds(s, i + n)
            ELSE FindAllIds(s, i + 1)

\* (mutant of FirstOf: result[-1])
LastOf(result) == result[Len(result)]

\* result[0]
FirstOf(result) == result[1]

parse_doc_id(u) ==
    LET result == FindAllIds(u, 1)
    IN IF result # <<>> THEN Some(FirstOf(result)) ELSE None

----------------------------------------------------------------------------
(* parse_image_urls.  A zoom string is a sequence of lexemes: "png=",      *)
(* "jpg=", "&", "-", single digits, and other characters.                  *)

Digits == {"0", "1", "2", "3", "4", "5", "6", "7", "8", "9"}

\* \d+ at z[i]: the length of the longest run of digits, 0 when there is none
RECURSIVE DigitRun(_, _)
DigitRun(z, i) ==
    IF i <= Len(z) /\ z[i] \in Digits THEN 1 + DigitRun(z, i + 1) ELSE 0

Is(z, i, lexeme) == i <= Len(z) /\ z[i] = lexeme

\* \d+-\d+ at z[i]: the length of the match, 0 when there is none
RangeAt(z, i) ==
    LET a == DigitRun(z, i)
        b == DigitRun(z, i + a + 1)
    IN IF a > 0 /\ Is(z, i + a, "-") /\ b > 0 THEN a + 1 + b ELSE 0

\* png=(\d+-\d+)&jpg=(\d+-\d+) at z[i]: the two groups and the length matched
ZoomMatchAt(z, i) ==
    LET r1 == RangeAt(z, i + 1)
        r2 == RangeAt(z, i + 3 + r1)
    IN IF Is(z, i, "png=") /\ r1 > 0 /\ Is(z, i + 1 + r1, "&")
          /\ Is(z, i + 2 + r1, "jpg=") /\ r2 > 0
       THEN [len |-> 3 + r1 + r2,
             png_range |-> SubSeq(z, i + 1, i + r1),
             jpg_range |-> SubSeq(z, i + 3 + r1, i + 2 + r1 + r2)]
       ELSE [len |-> 0]

\* pat.findall(zoom), scanning from position i
RECURSIVE FindAllZoom(_, _)
FindAllZoom(z, i) ==
    IF i > Len(z)
    THEN <<>>
    ELSE LET m == ZoomMatchAt(z, i)
         IN IF m.len > 0
            THEN <<m>> \o FindAllZoom(z, i + m.len)
            ELSE FindAllZoom(z, i + 1)

Degenerate == <<"0", "-", "0">>

\* (mutant of ImgFmt: img_fmt never reassigned)
AlwaysJpg(png_range, jpg_range) == "jpg"

\* img_fmt: "jpg" unless the jpg range is 0-0
ImgFmt(png_range, jpg_range) ==
    IF jpg_range = Degenerate THEN "png" ELSE "jpg"

\* the f-string of the image URL
ImageUrl(info, img_fmt, zoom) ==
    <<"https://wkretype.bdimg.com/retype/zoom/", info.doc_id, "?o=", img_fmt,
      info.md5sum>> \o zoom

\* one pass of the loop body over param: the URLs it appends
ImageUrlsOfParam(info, param) ==
    LET res == FindAllZoom(param.zoom, 1)
    IN IF res = <<>>
       THEN <<>>
       ELSE IF res[1].jpg_range = Degenerate /\ res[1].png_range = Degenerate
            THEN <<>>
            ELSE <<ImageUrl(info, ImgFmt(res[1].png_range, res[1].jpg_range),
                            param.zoom)>>

RECURSIVE ImageUrlsLoop(_, _)
ImageUrlsLoop(info, params) ==
    IF params = <<>>
    THEN <<>>
    ELSE ImageUrlsOfParam(info, Head(params)) \o ImageUrlsLoop(info, Tail(params))

parse_image_urls(info) == ImageUrlsLoop(info, info.bcsParam)

\* get_images: "o=jpg" in image_urls[idx - 1]
HasJpgTag(u) == \E i \in 1..(Len(u) - 1) : u[i] = "?o=" /\ u[i + 1] = "jpg"

\* get_images: the file name of the idx-th result
PageNumber(idx) == <<"1", "2", "3", "4", "5", "6", "7", "8", "9">>[idx]

ImageFilename(idx, u) ==
    <<"page-", PageNumber(idx), ".", IF HasJpgTag(u) THEN "jpg" ELSE "png">>

----------------------------------------------------------------------------
(* batch_fetch: a generator over a ThreadPoolExecutor.  A future is        *)
(* PENDING in the work queue, RUNNING in a worker (inside get_content),    *)
(* then OK or FAILED.                                                      *)

DefaultConcurrency == 8

\* the bytes the transport serves for url u
Body(u) == <<"content of">> \o u

Running(ts) == Cardinality({i \in 1..Len(ts) : ts[i] = "RUNNING"})

AllFinished(ts) == \A i \in 1..Len(ts) : ts[i] \in {"OK", "FAILED"}

\* (mutant of AdjustThreadCount: a thread per submit, max_workers ignored)
UncappedThreadCount(n, reuse) == IF reuse THEN n ELSE n + 1

\* ThreadPoolExecutor._adjust_thread_count: no new thread when an idle worker
\* is reused, and never more than max_workers threads
AdjustThreadCount(n, reuse) ==
    IF reuse THEN n ELSE IF n < concurrency THEN n + 1 ELSE n

\* the first call of next() on the generator: the body runs up to the
\* submit loop
BatchStart(us, who) ==
    /\ urls' = us
    /\ owner' = who
    /\ bpc' = IF us = <<>> THEN "wait" ELSE "submit"
    /\ tasks' = <<>>
    /\ num_threads' = 0
    /\ pos' = 1
    /\ out' = <<>>
    /\ UNCHANGED concurrency

\* for url in urls: task = executor.submit(get_content, url); tasks.append(task)
Submit ==
    /\ bpc = "submit"
    /\ tasks' = Append(tasks, "PENDING")
    /\ \E reuse \in (IF num_threads = 0 THEN {FALSE} ELSE BOOLEAN) :
           num_threads' = AdjustThreadCount(num_threads, reuse)
    /\ bpc' = IF Len(tasks) + 1 = Len(urls) THEN "wait" ELSE "submit"
    /\ UNCHANGED <<pc, text, pipeVars, pureVars, urls, owner, pos, out, concurrency>>

\* a free worker thread takes the oldest work item off the queue and calls
\* get_content(url): requests.get(url)
Start ==
    /\ \E i \in 1..Len(tasks) :
           /\ tasks[i] = "PENDING"
           /\ \A j \in 1..(i - 1) : tasks[j] # "PENDING"
           /\ Running(tasks) < num_threads
           /\ tasks' = [tasks EXCEPT ![i] = "RUNNING"]
           /\ requests' = Append(requests, urls[i])
    /\ UNCHANGED <<pc, text, url, doc_id, doc_info, image_urls, html, frags, exc,
                   dirs, files, warned, printed, pureVars, urls, owner, bpc,
                   num_threads, pos, out, concurrency>>

\* get_content returns the content, or requests.get raises
Finish ==
    /\ \E i \in 1..Len(tasks) :
           /\ tasks[i] = "RUNNING"
           /\ \E outcome \in {"OK", "FAILED"} :
                  tasks' = [tasks EXCEPT ![i] = outcome]
    /\ UNCHANGED <<pc, text, pipeVars, pureVars, urls, owner, bpc, num_threads,
                   pos, out, concurrency>>

\* (mutant of TaskAt: the tasks taken from the end of the list)
TaskAtReversed(p) == Len(urls) + 1 - p

\* for task in tasks: the task whose result the p-th pass waits for
TaskAt(p) == p

\* (mutant of ResultRaises: the first failure anywhere is raised at once)
AnyTaskFailed(ts, p) == \E i \in 1..Len(ts) : ts[i] = "FAILED"

\* task.result() raises the exception of the task it waits for
ResultRaises(ts, p) == ts[TaskAt(p)] = "FAILED"

\* for task in tasks: yield task.result()
YieldStep ==
    /\ bpc = "wait"
    /\ pos <= Len(urls)
    /\ tasks[TaskAt(pos)] = "OK"
    /\ out' = Append(out, Body(urls[TaskAt(pos)]))
    /\ pos' = pos + 1
    /\ UNCHANGED <<urls, owner, bpc, tasks, num_threads, concurrency>>

\* task.result() raises inside the with block: executor.shutdown(wait=True)
\* runs first
RaiseStep ==
    /\ bpc = "wait"
    /\ pos <= Len(urls)
    /\ ResultRaises(tasks, pos)
    /\ bpc' = "raising"
    /\ UNCHANGED <<urls, owner, tasks, num_threads, pos, out, concurrency>>

\* the generator is closed while suspended at the yield (its consumer failed):
\* executor.shutdown(wait=True) runs first
CloseStep ==
    /\ bpc = "wait"
    /\ bpc' = "closing"
    /\ UNCHANGED <<urls, owner, tasks, num_threads, pos, out, concurrency>>

\* shutdown(wait=True) has joined the workers: the generator is over, by
\* StopIteration ("done"), by the task's exception ("raised") or closed
ShutdownStep(from, to) ==
    /\ bpc = from
    /\ from = "wait" => pos > Len(urls)
    /\ AllFinished(tasks)
    /\ bpc' = to
    /\ UNCHANGED <<urls, owner, tasks, num_threads, pos, out, concurrency>>

BatchIdle ==
    /\ urls = <<>> /\ owner = "nobody" /\ bpc = "idle" /\ tasks = <<>>
    /\ num_threads = 0 /\ pos = 1 /\ out = <<>>

----------------------------------------------------------------------------
(* ProgressInfo, the context decorator of get_doc_info, get_text and       *)
(* get_images.                                                             *)

\* (mutant of ProgressInfoExit: __exit__ returns False, nothing is suppressed)
NeverSuppress(exc_value) == FALSE

\* __exit__: True (the exception is suppressed) when there is an exc_value
ProgressInfoExit(exc_value) == exc_value # "none"

\* (mutant of IsGeneratorFunction: the with block covers the iteration too)
NoGeneratorFunction(func) == FALSE

\* ContextDecorator runs func(*args) inside the with block; a generator
\* function returns its generator there, and its body runs after the block
IsGeneratorFunction(func) == func = "get_images"

\* what the decorated func returns for the outcome r of its body
Decorated(func, r) ==
    IF r.exc # "none" /\ ~IsGeneratorFunction(func) /\ ProgressInfoExit(r.exc)
    THEN Return(None)
    ELSE r

\* the line __exit__ prints for the outcome r of the with block
ExitLine(r) == IF r.exc # "none" THEN "Failed" ELSE "Finished"

----------------------------------------------------------------------------
(* fetch and the functions it drives.                                      *)

DocInfoUrl(id) ==
    <<"https://wenku.baidu.com/api/doc/getdocinfo", "?callback=cb&doc_id=">> \o id

ViewUrl(id) == <<"https://wenku.baidu.com/view/">> \o id

\* get_doc_info before the decorator, for the response resp of the API
GetDocInfoBody(resp) ==
    IF resp.status = "error"
    THEN Raise("RequestException")
    ELSE IF ~resp.jsonp THEN Raise("ValueError") ELSE Return(Some(resp.info))

\* if not doc_id
NoDocId(id) == ~id.some

\* fetch, up to the call of get_doc_info
FetchStart ==
    /\ pc = "fetch"
    /\ doc_id' = parse_doc_id(url)
    /\ IF NoDocId(doc_id')
       THEN /\ warned' = Append(warned, "Can not get doc_id from url")
            /\ pc' = "returned"
       ELSE /\ warned' = warned
            /\ pc' = "get_doc_info"
    /\ UNCHANGED <<text, url, doc_info, image_urls, html, frags, exc, dirs, files,
                   printed, requests, pureVars, batchVars>>

\* pat.findall(html) for pat = var pageData = (\{.*\})
PageDataMatches(page) ==
    IF page.pageData.some THEN <<page.pageData.v>> ELSE <<>>

\* get_text up to the call of batch_fetch: the fragment URLs, or what it raises
GetTextHead(page) ==
    IF page.status = "error"
    THEN Raise("RequestException")
    ELSE LET res == PageDataMatches(page)
         IN IF Len(res) = 0
            THEN Raise("ValueError")
            ELSE LET html_urls == res[1].readerInfo2019.htmlUrls
                 IN IF html_urls.kind = "list"
                    THEN Raise("ValueError")
                    ELSE Return([i \in 1..Len(html_urls.json) |->
                                    html_urls.json[i].pageLoadUrl])

RECURSIVE Join(_)
Join(fs) == IF fs = <<>> THEN <<>> ELSE Head(fs) \o Join(Tail(fs))

Title == doc_info.v.docInfo.docTitle

TextFilename == <<Title, "/", Title, ".txt">>

\* fetch from the return of get_text on; r is the outcome of get_text's body,
\* started the lines get_text printed in the same step
AfterGetText(r, started) ==
    LET got == Decorated("get_text", r)
    IN /\ printed' = printed \o started \o <<ExitLine(r)>>
                     \o (IF got.exc = "none" /\ got.value.some
                         THEN <<"download directory">> ELSE <<>>)
       /\ IF got.exc # "none"
          THEN /\ pc' = "raised"
               /\ exc' = got.exc
               /\ UNCHANGED <<text, warned, files>>
          ELSE /\ text' = got.value
               /\ exc' = exc
               /\ IF ~got.value.some
                  THEN /\ warned' = Append(warned, "no text")
                       /\ files' = files
                  ELSE /\ warned' = warned
                       /\ files' = (TextFilename :> got.value.v) @@ files
               /\ pc' = "returned"

----------------------------------------------------------------------------
(* What the upstream service may serve.                                    *)

PngJpg(r1, r2) == <<"&", "png=">> \o r1 \o <<"&", "jpg=">> \o r2

ZoomSamples == {PngJpg(Degenerate, Degenerate),
                PngJpg(Degenerate, <<"5", "-", "1", "0">>),
                PngJpg(<<"0", "-", "7">>, Degenerate)}

DocInfoOf(params) ==
    [doc_id |-> "080f08af998fcc22bcd10d77",
     md5sum |-> "&md5sum=9d5ed678fe57bcca610140957afab571",
     docInfo |-> [docTitle |-> "doc title"],
     bcsParam |-> [i \in 1..Len(params) |-> [zoom |-> params[i], page |-> i]]]

DocInfoSamples == {DocInfoOf(ps) : ps \in SeqsUpTo(ZoomSamples, MaxParams)}

MetaResponses ==
    {[status |-> "error"], [status |-> "ok", jsonp |-> FALSE]}
    \cup {[status |-> "ok", jsonp |-> TRUE, info |-> d] : d \in DocInfoSamples}

FragmentUrl(name) == <<"https://wkbjcloudbos.bdimg.com/v1/", name>>

FragmentNames == {"0.json", "1.json", "broken"}

\* the body of each fragment the service holds
FragmentItems(name) ==
    IF name = "0.json"
    THEN <<[t |-> "word", c |-> "A", y |-> 0], [t |-> "word", c |-> "B", y |-> 0],
           [t |-> "word", c |-> "C", y |-> 5]>>
    ELSE <<[t |-> "pic", c |-> "-", y |-> 9], [t |-> "word", c |-> "D", y |-> 9]>>

\* what load_jsonp makes of the bytes b served for a fragment URL
FragmentJsonp(b) ==
    LET name == b[Len(b)]
    IN IF name = "broken"
       THEN Raise("ValueError")
       ELSE Return([body |-> FragmentItems(name)])

HtmlUrlsOf(names) ==
    [kind |-> "dict",
     json |-> [i \in 1..Len(names) |-> [pageLoadUrl |-> FragmentUrl(names[i])]]]

PageData(html_urls) == [readerInfo2019 |-> [htmlUrls |-> html_urls]]

TextShapes == {HtmlUrlsOf(ns) : ns \in SeqsUpTo(FragmentNames, MaxFragments)}

ViewerPages ==
    {[status |-> "error"],
     [status |-> "ok", pageData |-> None, WkInfo |-> None],
     [status |-> "ok", pageData |-> Some(PageData([kind |-> "list"])), WkInfo |-> None]}
    \cup {[status |-> "ok", pageData |-> None, WkInfo |-> Some(h)] : h \in TextShapes}
    \cup {[status |-> "ok", pageData |-> Some(PageData(h)), WkInfo |-> None] :
              h \in TextShapes}

----------------------------------------------------------------------------
(* fetch, continued.                                                       *)

\* doc_info = cls.get_doc_info(doc_id); title = ...; dirpath = cls.mkdir(title)
GetDocInfo ==
    /\ pc = "get_doc_info"
    /\ \E resp \in MetaResponses :
         LET r == GetDocInfoBody(resp)
             got == Decorated("get_doc_info", r)
         IN /\ requests' = Append(requests, DocInfoUrl(doc_id.v))
            /\ printed' = printed \o <<"get_doc_info", ExitLine(r)>>
            /\ IF got.exc # "none"
               THEN /\ pc' = "raised"
                    /\ exc' = got.exc
                    /\ UNCHANGED <<doc_info, dirs>>
               ELSE /\ doc_info' = got.value
                    /\ IF ~got.value.some
                       THEN /\ pc' = "raised"
                            /\ exc' = "TypeError"
                            /\ dirs' = dirs
                       ELSE /\ pc' = "get_images"
                            /\ exc' = exc
                            /\ dirs' = dirs \cup {got.value.v.docInfo.docTitle}
    /\ UNCHANGED <<text, url, doc_id, image_urls, html, frags, files, warned,
                   pureVars, batchVars>>

\* for filename, data in cls.get_images(doc_info): up to the submit loop of
\* batch_fetch
GetImages ==
    /\ pc = "get_images"
    /\ printed' = printed \o <<"get_images", ExitLine(Return(None))>>
    /\ image_urls' = parse_image_urls(doc_info.v)
    /\ BatchStart(image_urls', "images")
    /\ pc' = "images"
    /\ UNCHANGED <<text, url, doc_id, doc_info, html, frags, exc, dirs, files,
                   warned, requests, pureVars>>

\* one pass of the for loop of fetch: the next (filename, data), written
ImagesNext ==
    /\ pc = "images" /\ owner = "images"
    /\ YieldStep
    /\ LET idx == Len(out) + 1
           filename == ImageFilename(idx, image_urls[idx])
       IN files' = (<<Title, "/">> \o filename :> out'[idx]) @@ files
    /\ UNCHANGED <<pc, text, url, doc_id, doc_info, image_urls, html, frags, exc,
                   dirs, warned, printed, requests, pureVars>>

ImagesRaise ==
    /\ pc = "images" /\ owner = "images"
    /\ RaiseStep
    /\ UNCHANGED <<pc, text, pipeVars, pureVars>>

\* the failed fetch leaves batch_fetch, get_images and the for loop of fetch
ImagesRaised ==
    /\ pc = "images" /\ owner = "images"
    /\ ShutdownStep("raising", "raised")
    /\ LET got == Decorated("get_images", Raise("RequestException"))
       IN IF got.exc # "none"
          THEN pc' = "raised" /\ exc' = got.exc
          ELSE pc' = "get_text" /\ exc' = exc
    /\ UNCHANGED <<text, url, doc_id, doc_info, image_urls, html, frags, dirs,
                   files, warned, printed, requests, pureVars>>

\* the for loop of fetch ends
ImagesEnd ==
    /\ pc = "images" /\ owner = "images"
    /\ ShutdownStep("wait", "done")
    /\ pc' = "get_text"
    /\ UNCHANGED <<text, pipeVars, pureVars>>

\* text = cls.get_text(doc_id): up to the submit loop of batch_fetch, or to
\* the end of fetch when get_text raises before
GetText ==
    /\ pc = "get_text"
    /\ \E page \in ViewerPages :
         LET r == GetTextHead(page)
         IN /\ requests' = Append(requests, ViewUrl(doc_id.v))
            /\ html' = page
            /\ frags' = <<>>
            /\ IF r.exc # "none"
               THEN /\ AfterGetText(r, <<"get_text">>)
                    /\ UNCHANGED batchVars
               ELSE /\ BatchStart(r.value, "text")
                    /\ printed' = Append(printed, "get_text")
                    /\ pc' = "text"
                    /\ UNCHANGED <<text, exc, warned, files>>
    /\ UNCHANGED <<url, doc_id, doc_info, image_urls, dirs, pureVars>>

\* one pass of the for loop of get_text: text = cls.parse_doc_content(data)
TextNext ==
    /\ pc = "text" /\ owner = "text"
    /\ YieldStep
    /\ LET parsed == parse_doc_content(FragmentJsonp(out'[Len(out')]))
       IN IF parsed.exc # "none"
          THEN pc' = "text_failed" /\ frags' = frags
          ELSE pc' = "text" /\ frags' = Append(frags, parsed.value)
    /\ UNCHANGED <<text, url, doc_id, doc_info, image_urls, html, exc, dirs, files,
                   warned, printed, requests, pureVars>>

\* parse_doc_content raised: the suspended generator is closed
TextClose ==
    /\ pc = "text_failed" /\ owner = "text"
    /\ CloseStep
    /\ UNCHANGED <<pc, text, pipeVars, pureVars>>

TextClosed ==
    /\ pc = "text_failed" /\ owner = "text"
    /\ ShutdownStep("closing", "closed")
    /\ AfterGetText(Raise("ValueError"), <<>>)
    /\ UNCHANGED <<url, doc_id, doc_info, image_urls, html, frags, dirs, requests,
                   pureVars>>

TextRaise ==
    /\ pc = "text" /\ owner = "text"
    /\ RaiseStep
    /\ UNCHANGED <<pc, text, pipeVars, pureVars>>

\* the failed fetch leaves batch_fetch and get_text
TextRaised ==
    /\ pc = "text" /\ owner = "text"
    /\ ShutdownStep("raising", "raised")
    /\ AfterGetText(Raise("RequestException"), <<>>)
    /\ UNCHANGED <<url, doc_id, doc_info, image_urls, html, frags, dirs, requests,
                   pureVars>>

\* return "".join(frags), and fetch to its end
TextEnd ==
    /\ pc = "text" /\ owner = "text"
    /\ ShutdownStep("wait", "done")
    /\ AfterGetText(Return(Some(Join(frags))), <<>>)
    /\ UNCHANGED <<url, doc_id, doc_info, image_urls, html, frags, dirs, requests,
                   pureVars>>

----------------------------------------------------------------------------
(* A direct caller of batch_fetch, iterating the generator to its end.     *)

CallerFirst ==
    /\ pc = "batch_fetch" /\ bpc = "created"
    /\ BatchStart(urls, "caller")
    /\ UNCHANGED <<pc, text, pipeVars, pureVars>>

CallerNext ==
    /\ owner = "caller"
    /\ YieldStep
    /\ UNCHANGED <<pc, text, pipeVars, pureVars>>

CallerRaise ==
    /\ owner = "caller"
    /\ RaiseStep
    /\ UNCHANGED <<pc, text, pipeVars, pureVars>>

CallerRaised ==
    /\ owner = "caller"
    /\ ShutdownStep("raising", "raised")
    /\ pc' = "raised"
    /\ exc' = "RequestException"
    /\ UNCHANGED <<text, url, doc_id, doc_info, image_urls, html, frags, dirs,
                   files, warned, printed, requests, pureVars>>

CallerEnd ==
    /\ owner = "caller"
    /\ ShutdownStep("wait", "done")
    /\ pc' = "returned"
    /\ UNCHANGED <<text, pipeVars, pureVars>>

----------------------------------------------------------------------------
(* Direct calls of the pure functions.                                     *)

CallLoadJsonp ==
    /\ pc = "load_jsonp"
    /\ data' = load_jsonp(content)
    /\ pc' = "returned"
    /\ UNCHANGED <<text, pipeVars, content, raw, batchVars>>

CallParseDocContent ==
    /\ pc = "parse_doc_content"
    /\ data' = parse_doc_content(raw)
    /\ pc' = "returned"
    /\ UNCHANGED <<text, pipeVars, content, raw, batchVars>>

CallParseImageUrls ==
    /\ pc = "parse_image_urls"
    /\ image_urls' = parse_image_urls(doc_info.v)
    /\ pc' = "returned"
    /\ UNCHANGED <<text, url, doc_id, doc_info, html, frags, exc, dirs, files,
                   warned, printed, requests, pureVars, batchVars>>

----------------------------------------------------------------------------
(* Inputs.                                                                 *)

PayloadChars == {"(", ")", "1", " ", "x"}
PayloadBytes == {40, 41, 49, 32, 120}

WordRecords == [t : {"word", "pic"}, c : {"A", "B", "C"}, y : {0, 1, 5}]

Rep(ch, n) == [i \in 1..n |-> ch]

\* the pieces urls are put together from: runs of hex digits shorter than,
\* as long as and longer than the pattern asks for, and other characters
UrlSegments == {Rep("7", 7), Rep("a", 8), Rep("0", 9), <<"/">>, <<"A">>, <<"g">>}

RECURSIVE Concat(_)
Concat(ss) == IF ss = <<>> THEN <<>> ELSE Head(ss) \o Concat(Tail(ss))

SegmentUrls == {Concat(ss) : ss \in SeqsUpTo(UrlSegments, MaxSegments)}

Chars(str) ==
    CASE str = "/764658986845968abdbbd/" ->
             <<"/", "7", "6", "4", "6", "5", "8", "9", "8", "6", "8", "4", "5",
               "9", "6", "8", "a", "b", "d", "b", "b", "d", "/">>
      [] str = "no-hex-here" ->
             <<"n", "o", "-", "h", "e", "x", "-", "h", "e", "r", "e">>

\* the urls fetch is run on: the one of test_parse_doc_id, and one without id
FetchUrls == {Chars("/764658986845968abdbbd/"), Chars("no-hex-here")}

AllZooms ==
    {PngJpg(r1, r2) : r1, r2 \in {Degenerate, <<"5", "-", "1", "0">>, <<"0", "-", "0", "5">>}}
    \cup {<<>>,
          <<"&", "png=", "0", "-", "7">>,
          <<"&", "jpg=", "5", "-", "9", "&", "png=", "0", "-", "7">>,
          <<"&", "png=", "5", "-", "&", "jpg=", "5", "-", "9">>,
          PngJpg(Degenerate, Degenerate) \o <<"x">> \o PngJpg(<<"2", "-", "3">>, Degenerate)}

AllDocInfos == {DocInfoOf(ps) : ps \in SeqsUpTo(AllZooms, MaxParams)}

UrlNames == {<<"http://host/a">>, <<"http://host/b">>}

NoValue == [exc |-> "not called"]

InitPipe ==
    /\ url = <<>> /\ doc_id = None /\ doc_info = None /\ image_urls = <<>>
    /\ html = [status |-> "not requested"] /\ frags = <<>> /\ exc = "none"
    /\ dirs = {} /\ files = <<>> /\ warned = <<>> /\ printed = <<>>
    /\ requests = <<>>

InitPure == content = [type |-> "str", data |-> <<>>] /\ raw = NoValue /\ data = NoValue

\* WenKuClient.fetch(url), as __main__ runs it
InitFetch ==
    /\ pc = "fetch" /\ text = None
    /\ url \in FetchUrls
    /\ doc_id = None /\ doc_info = None /\ image_urls = <<>>
    /\ html = [status |-> "not requested"] /\ frags = <<>> /\ exc = "none"
    /\ dirs = {} /\ files = <<>> /\ warned = <<>> /\ printed = <<>>
    /\ requests = <<>>
    /\ InitPure
    /\ BatchIdle /\ concurrency = DefaultConcurrency

\* WenKuClient.fetch(url) on the urls put together from UrlSegments
InitDocId ==
    /\ pc = "fetch" /\ text = None
    /\ url \in SegmentUrls
    /\ doc_id = None /\ doc_info = None /\ image_urls = <<>>
    /\ html = [status |-> "not requested"] /\ frags = <<>> /\ exc = "none"
    /\ dirs = {} /\ files = <<>> /\ warned = <<>> /\ printed = <<>>
    /\ requests = <<>>
    /\ InitPure
    /\ BatchIdle /\ concurrency = DefaultConcurrency

\* WenKuClient.batch_fetch(urls), the generator not yet started
InitBatch ==
    /\ pc = "batch_fetch" /\ text = None
    /\ InitPipe /\ InitPure
    /\ \/ /\ urls \in SeqsUpTo(UrlNames, MaxUrls)
          /\ concurrency \in 1..MaxConcurrency
       \/ /\ urls = Rep(<<"http://host/a">>, DefaultConcurrency + 1)
          /\ concurrency = DefaultConcurrency
    /\ owner = "nobody" /\ bpc = "created" /\ tasks = <<>> /\ num_threads = 0
    /\ pos = 1 /\ out = <<>>

InitJsonp ==
    /\ pc = "load_jsonp" /\ text = None
    /\ InitPipe /\ raw = NoValue /\ data = NoValue
    /\ \/ content \in [type : {"str"}, data : SeqsUpTo(PayloadChars, MaxLen)]
       \/ content \in [type : {"bytes"}, data : SeqsUpTo(PayloadBytes, MaxLen)]
    /\ BatchIdle /\ concurrency = DefaultConcurrency

InitContent ==
    /\ pc = "parse_doc_content" /\ text = None
    /\ InitPipe /\ content = [type |-> "str", data |-> <<>>] /\ data = NoValue
    /\ raw \in {Return([body |-> items]) : items \in SeqsUpTo(WordRecords, MaxItems)}
    /\ BatchIdle /\ concurrency = DefaultConcurrency

InitImageUrls ==
    /\ pc = "parse_image_urls" /\ text = None
    /\ url = <<>> /\ doc_id = None /\ image_urls = <<>>
    /\ doc_info \in {Some(d) : d \in AllDocInfos}
    /\ html = [status |-> "not requested"] /\ frags = <<>> /\ exc = "none"
    /\ dirs = {} /\ files = <<>> /\ warned = <<>> /\ printed = <<>>
    /\ requests = <<>>
    /\ InitPure
    /\ BatchIdle /\ concurrency = DefaultConcurrency

----------------------------------------------------------------------------
(* Specifications.                                                         *)

Next ==
    \/ FetchStart \/ GetDocInfo \/ GetImages
    \/ ImagesNext \/ ImagesRaise \/ ImagesRaised \/ ImagesEnd
    \/ GetText \/ TextNext \/ TextClose \/ TextClosed
    \/ TextRaise \/ TextRaised \/ TextEnd
    \/ Submit \/ Start \/ Finish

Spec == InitFetch /\ [][Next]_vars

NextBatch ==
    \/ CallerFirst \/ CallerNext \/ CallerRaise \/ CallerRaised \/ CallerEnd
    \/ Submit \/ Start \/ Finish

SpecBatch == InitBatch /\ [][NextBatch]_vars

SpecDocId == InitDocId /\ [][FetchStart]_vars

SpecJsonp == InitJsonp /\ [][CallLoadJsonp]_vars

SpecContent == InitContent /\ [][CallParseDocContent]_vars

SpecImageUrls == InitImageUrls /\ [][CallParseImageUrls]_vars

----------------------------------------------------------------------------
(* The claims.                                                             *)

\* C1: batch_fetch yields the payloads in input order: the i-th value yielded
\* is the payload fetched for the i-th url and is yielded only once task i has
\* completed, whatever the order the workers finish in; never more than N
\* values, and exactly N when the generator ends normally.
C1_OrderedResults ==
    /\ Len(out) <= Len(urls)
    /\ \A i \in 1..Len(out) : out[i] = Body(urls[i]) /\ tasks[i] = "OK"
    /\ bpc = "done" => Len(out) = Len(urls)

\* C1 witness: the third task has completed while the second is still running,
\* and the consumer holds the first result only.
C1_LaterFinishedFirst ==
    /\ owner = "caller" /\ Len(urls) >= 3 /\ Len(tasks) >= 3
    /\ tasks[2] = "RUNNING" /\ tasks[3] = "OK"
    /\ urls[2] # urls[3]
    /\ Len(out) = 1 /\ bpc = "wait"

\* C2: at most `concurrency` get_content calls are in flight at any time, for
\* any N, and all N operations are submitted before the first result is
\* awaited.
C2_BoundedInFlight ==
    /\ Running(tasks) <= concurrency
    /\ bpc \in {"wait", "raising", "raised", "done"} => Len(tasks) = Len(urls)

\* C2 witness: the default limit of 8 is reached with a ninth operation
\* submitted and waiting in the queue.
C2_PoolSaturated ==
    /\ owner = "caller" /\ concurrency = DefaultConcurrency
    /\ Len(urls) > concurrency /\ Len(tasks) = Len(urls)
    /\ Running(tasks) = concurrency
    /\ tasks[Len(tasks)] = "PENDING"

\* C3: a failed fetch is raised to the consumer when the consumer asks for
\* that result and not before: whenever batch_fetch raises, the task awaited
\* is the failed one and the results before it have all been delivered, in
\* order; a failed task is never passed over.
C3_FailureAtItsTurn ==
    /\ bpc \in {"raising", "raised"} =>
           /\ pos <= Len(urls)
           /\ tasks[pos] = "FAILED"
           /\ Len(out) = pos - 1
           /\ \A k \in 1..(pos - 1) : out[k] = Body(urls[k])
    /\ \A i \in 1..Len(tasks) : (i < pos => tasks[i] = "OK")

\* C3 witness: the failure of the second task is raised after the first result
\* was delivered, a later task having failed as well.
C3_RaisedAfterEarlierResults ==
    /\ owner = "caller" /\ bpc = "raised" /\ pos = 2 /\ Len(out) = 1
    /\ Len(tasks) >= 3 /\ tasks[3] = "FAILED"

\* the text the y rule asks for: the payloads of the "word" records, a line
\* break before a record whose y is more than 1 away from the y of the "word"
\* record before it (prev is that y, None at the first)
RECURSIVE BrokenText(_, _)
BrokenText(items, prev) ==
    IF items = <<>>
    THEN <<>>
    ELSE LET item == Head(items)
         IN IF item.t # "word"
            THEN BrokenText(Tail(items), prev)
            ELSE (IF prev.some /\ Abs(item.y - prev.v) > 1 THEN <<"\n">> ELSE <<>>)
                 \o <<item.c>> \o BrokenText(Tail(items), Some(item.y))

\* C4: parse_doc_content returns the payloads of the "word" records with a
\* line break between two consecutive contributing records exactly when their
\* y differ by more than 1, the break standing before the later record's
\* characters: A(y=0), B(y=0), C(y=5) give "AB\nC".
C4_BreakBetweenLines ==
    pc = "returned" => data = Return(BrokenText(raw.value.body, None))

\* the payload as text
TextOf(c) == IF c.type = "bytes" THEN Decode(c.data) ELSE c.data

\* C5: load_jsonp parses the text strictly between the first "(" and the last
\* ")", and fails with a parse error when the payload has no "(" followed by a
\* ")" or when that text is not JSON.
C5_UnwrapOrParseError ==
    pc = "returned" =>
        LET s == TextOf(content)
            opens == {i \in 1..Len(s) : s[i] = "("}
            closes == {i \in 1..Len(s) : s[i] = ")"}
        IN IF \E i \in opens : \E j \in closes : i < j
           THEN LET first == CHOOSE i \in opens : \A k \in opens : i <= k
                    last == CHOOSE j \in closes : \A k \in closes : k <= j
                IN data = JsonLoads(SubSeq(s, first + 1, last - 1))
           ELSE data.exc \in {"ValueError", "JSONDecodeError"}

\* C6: a failed metadata fetch and a failed image fetch end fetch with an
\* error.  After a failed get_doc_info no directory exists and the metadata
\* request is the only one issued; in both cases no text file is written, the
\* viewer page is not requested and no summary line is printed.  Once an
\* image fetch has failed the run goes on until it has raised.
C6_HardErrorsAreFatal ==
    /\ (pc \notin {"fetch", "get_doc_info"} /\ doc_id.some /\ ~doc_info.some) =>
           /\ pc = "raised" /\ exc # "none"
           /\ dirs = {} /\ files = <<>>
           /\ requests = <<DocInfoUrl(doc_id.v)>>
           /\ \A i \in 1..Len(printed) : printed[i] # "download directory"
    /\ (owner = "images" /\ \E i \in 1..Len(tasks) : tasks[i] = "FAILED") =>
           /\ pc \in {"images", "raised"}
           /\ pc = "images" => ENABLED Next
           /\ pc = "raised" => exc # "none"
           /\ bpc = "raised" => pc = "raised"
           /\ TextFilename \notin DOMAIN files
           /\ \A i \in 1..Len(requests) : requests[i] # ViewUrl(doc_id.v)
           /\ \A i \in 1..Len(printed) : printed[i] # "download directory"

\* C6 witness: the second image fetch failed, after the first page was
\* written, and fetch has raised.
C6_ImageFailureRaised ==
    /\ pc = "raised" /\ owner = "images" /\ bpc = "raised"
    /\ Len(image_urls) = 2 /\ Len(out) = 1
    /\ DOMAIN files # {}

\* the files get_images yields for image_urls
PageFiles ==
    {<<Title, "/">> \o ImageFilename(i, image_urls[i]) : i \in 1..Len(image_urls)}

\* text extraction has failed: the viewer page could not be fetched, holds no
\* pageData blob or is of a non-text document, or a fragment could not be
\* fetched or parsed
TextExtractionFailed ==
    \/ html.status = "error"
    \/ html.status = "ok" /\ ~html.pageData.some
    \/ html.status = "ok" /\ html.pageData.some
         /\ html.pageData.v.readerInfo2019.htmlUrls.kind = "list"
    \/ owner = "text" /\ \E i \in 1..Len(tasks) : tasks[i] = "FAILED"
    \/ owner = "text" /\ pc = "text_failed"
    \/ owner = "text" /\ bpc \in {"raised", "closed"}

\* C7: when text extraction fails after the metadata and all images
\* succeeded, fetch does not raise: every page image is on disk, there is no
\* text file and no summary line, and the run goes on until it has returned,
\* with one warning emitted.
C7_TextFailureIsRecoverable ==
    TextExtractionFailed =>
        /\ pc \in {"text", "text_failed", "returned"} /\ exc = "none"
        /\ pc # "returned" => ENABLED Next
        /\ pc = "returned" => (text = None /\ warned = <<"no text">>)
        /\ bpc \in {"raised", "closed"} => pc = "returned"
        /\ DOMAIN files = PageFiles
        /\ \A i \in 1..Len(image_urls) :
               files[<<Title, "/">> \o ImageFilename(i, image_urls[i])]
                   = Body(image_urls[i])
        /\ \A i \in 1..Len(printed) : printed[i] # "download directory"

\* C7 witness: two images were written, the first fragment was parsed and the
\* fetch of the second failed; fetch has returned.
C7_FragmentFailedAfterImages ==
    /\ pc = "returned" /\ owner = "text" /\ bpc = "raised"
    /\ Len(image_urls) = 2 /\ Len(out) = 1 /\ Len(frags) = 1
    /\ Cardinality(DOMAIN files) = 2

\* r is <digits>-<digits>
IsRange(r) ==
    \E k \in 2..(Len(r) - 1) :
        /\ r[k] = "-"
        /\ \A j \in 1..Len(r) : j # k => r[j] \in Digits

\* png=<r1>&jpg=<r2> stands at z[i], r1 of n1 and r2 of n2 lexemes, r2 as long
\* as can be
ShapeAt(z, i, n1, n2) ==
    /\ i + n1 + 2 + n2 <= Len(z)
    /\ z[i] = "png="
    /\ IsRange(SubSeq(z, i + 1, i + n1))
    /\ z[i + n1 + 1] = "&" /\ z[i + n1 + 2] = "jpg="
    /\ IsRange(SubSeq(z, i + n1 + 3, i + n1 + 2 + n2))
    /\ (i + n1 + 3 + n2 <= Len(z) => z[i + n1 + 3 + n2] \notin Digits)

HasShape(z) ==
    \E i \in 1..Len(z) : \E n1 \in 3..Len(z) : \E n2 \in 3..Len(z) : ShapeAt(z, i, n1, n2)

\* the two ranges of the leftmost png=..&jpg=.. of z
RangesOf(z) ==
    LET i == CHOOSE i \in 1..Len(z) :
                 /\ \E n1 \in 3..Len(z) : \E n2 \in 3..Len(z) : ShapeAt(z, i, n1, n2)
                 /\ \A h \in 1..(i - 1) : \A n1 \in 3..Len(z) : \A n2 \in 3..Len(z) :
                        ~ShapeAt(z, h, n1, n2)
        n == CHOOSE n \in (3..Len(z)) \X (3..Len(z)) : ShapeAt(z, i, n[1], n[2])
    IN [png |-> SubSeq(z, i + 1, i + n[1]),
        jpg |-> SubSeq(z, i + n[1] + 3, i + n[1] + 2 + n[2])]

\* the page contributes a URL
HasImage(z) ==
    HasShape(z) /\ ~(RangesOf(z).png = Degenerate /\ RangesOf(z).jpg = Degenerate)

\* C8: parse_image_urls returns, in bcsParam order, one URL for each page
\* whose zoom holds png=<a>-<b>&jpg=<c>-<d> (its leftmost occurrence) with not
\* both ranges 0-0, and none for the other pages; the URL carries the page's
\* zoom and one format tag, jpg when the png range is 0-0 and the jpg range is
\* not, png when only the jpg range is 0-0.
C8_OneUrlPerImagePage ==
    pc = "returned" =>
        LET params == doc_info.v.bcsParam
            pages == {i \in 1..Len(params) : HasImage(params[i].zoom)}
            page(k) == CHOOSE i \in pages : Cardinality({j \in pages : j < i}) = k - 1
        IN /\ Len(image_urls) = Cardinality(pages)
           /\ \A k \in 1..Len(image_urls) :
                  LET u == image_urls[k]
                      zoom == params[page(k)].zoom
                      r == RangesOf(zoom)
                  IN /\ SubSeq(u, 1, 3) = <<"https://wkretype.bdimg.com/retype/zoom/",
                                            doc_info.v.doc_id, "?o=">>
                     /\ u[4] \in {"jpg", "png"}
                     /\ u[5] = doc_info.v.md5sum
                     /\ SubSeq(u, 6, Len(u)) = zoom
                     /\ (r.png = Degenerate /\ r.jpg # Degenerate) => u[4] = "jpg"
                     /\ (r.jpg = Degenerate /\ r.png # Degenerate) => u[4] = "png"

\* C8 witness: of two pages the first has both ranges 0-0 and is skipped, the
\* second has only the jpg range 0-0 and gives the one URL, tagged png.
C8_SkippedThenPng ==
    /\ pc = "returned" /\ Len(doc_info.v.bcsParam) = 2
    /\ doc_info.v.bcsParam[1].zoom = PngJpg(Degenerate, Degenerate)
    /\ Len(image_urls) = 1 /\ image_urls[1][4] = "png"

\* s[i..j] is a run of hex digits that cannot be extended
IsMaximalHexRun(s, i, j) ==
    /\ i <= j
    /\ \A k \in i..j : s[k] \in HexDigits
    /\ (i > 1 => s[i - 1] \notin HexDigits)
    /\ (j < Len(s) => s[j + 1] \notin HexDigits)

LongRuns(s) ==
    {r \in (1..Len(s)) \X (1..Len(s)) :
         IsMaximalHexRun(s, r[1], r[2]) /\ r[2] - r[1] + 1 >= MinIdLen}

\* C9: parse_doc_id returns the leftmost run of 8 or more characters of
\* [0-9a-f] of the url, and None when there is no such run; fetch then warns
\* and returns without raising, with no request issued and no directory or
\* file created.
C9_LeftmostIdOrWarning ==
    pc # "fetch" =>
        IF LongRuns(url) # {}
        THEN /\ \E r \in LongRuns(url) :
                    /\ \A q \in LongRuns(url) : r[1] <= q[1]
                    /\ doc_id = Some(SubSeq(url, r[1], r[2]))
             /\ pc = "get_doc_info" /\ warned = <<>>
        ELSE /\ doc_id = None
             /\ pc = "returned" /\ exc = "none"
             /\ warned = <<"Can not get doc_id from url">>
             /\ requests = <<>> /\ dirs = {} /\ files = <<>>

\* C9 witness: a url with two runs of seven hex digits and none of eight:
\* fetch has warned and returned.
C9_NoIdWarned ==
    /\ url = Rep("7", 7) \o <<"g">> \o Rep("7", 7)
    /\ pc = "returned" /\ doc_id = None /\ warned # <<>>

\* C10: a viewer page without the pageData blob but with a WkInfo.htmlUrls
\* assignment still gives get_text the fragment URLs, in order.
C10_FallsBackToWkInfo ==
    (pc # "get_text" /\ html.status = "ok" /\ ~html.pageData.some /\ html.WkInfo.some) =>
        /\ owner = "text"
        /\ urls = [i \in 1..Len(html.WkInfo.v.json) |->
                       html.WkInfo.v.json[i].pageLoadUrl]

====
